---- MODULE Spec2Model ----
(***************************************************************************)
(* Model of etf_matcher_vector_config_loader (src/src/lib.rs): a stateless *)
(* client that fetches a TOML manifest of ticker-vector configurations and *)
(* the binary resources the manifest names.                                *)
(*                                                                         *)
(* Strings are TLA+ strings (TLC evaluates \o, Len and SubSeq on them).    *)
(* The remote side (the HTTP server and what it hosts) is the environment: *)
(* every request is answered by one of Outcomes.  Each public function is  *)
(* an operator that returns its result together with the requests it       *)
(* issued, and one action per public function records that in `last`.      *)
(***************************************************************************)
EXTENDS Integers, Sequences, FiniteSets, TLC

VARIABLES
    remote,     \* the document the server hosts at the manifest URL
    last,       \* the last call of a public function: op, arg, outs, io, result
    servedAll   \* history: the results of the get_all_etf_matcher_configs
                \* calls that were served the manifest since it last changed

vars == <<remote, last, servedAll>>

----------------------------------------------------------------------------
(* Constants of the program *)

BASE_URL == "https://etfmatcher.com/data/"

MANIFEST_FILE == "ticker_vector_configs.toml"

SYMBOL_MAP_FILE == "ticker_symbol_map.flatbuffers.bin"

----------------------------------------------------------------------------
(* Values: Option and Result *)

None == [some |-> FALSE]

Some(v) == [some |-> TRUE, v |-> v]

Ok(v) == [ok |-> TRUE, val |-> v]

Err(e) == [ok |-> FALSE, err |-> e]

\* reqwest::Error boxed by `?`
TransportError == [kind |-> "TransportError"]

\* toml::de::Error boxed by `?`
ParseError == [kind |-> "ParseError"]

\* the String error built at lib.rs:80, boxed by `?`
NotFoundError(key) ==
    [kind |-> "NotFoundError", msg |-> "Config for key '" \o key \o "' not found"]

----------------------------------------------------------------------------
(* Raw TOML values, as the syntax level of the deserializer sees them *)

S(v) == [t |-> "str", s |-> v]

I(n) == [t |-> "int", n |-> n]

A(seq) == [t |-> "arr", a |-> seq]

T(f) == [t |-> "table", tbl |-> f]

\* the entry of the repository's unit test (tests/config_tests.rs:68-77)
RawFull ==
    [f \in {"path", "description", "last_training_time", "features",
            "vector_dimensions", "training_sequence_length",
            "training_data_sources"} |->
        CASE f = "path" -> S("test_path.bin")
          [] f = "description" -> S("Test Config")
          [] f = "last_training_time" -> S("2025-01-01T00:00:00Z")
          [] f = "features" -> I(100)
          [] f = "vector_dimensions" -> I(200)
          [] f = "training_sequence_length" -> I(50)
          [] f = "training_data_sources" -> A(<<S("source1"), S("source2")>>)]

\* a fully qualified path, a notebook, and a field the schema does not know
RawUrl ==
    [f \in {"path", "proto_noteboook", "licence"} |->
        CASE f = "path" -> S("https://example.com/x.bin")
          [] f = "proto_noteboook" -> S("nb.ipynb")
          [] f = "licence" -> S("MIT")]

\* the required field is missing
RawNoPath == [f \in {"description"} |-> S("no path here")]

\* an optional field of the wrong type
RawBadFeatures ==
    [f \in {"path", "features"} |->
        CASE f = "path" -> S("x.bin")
          [] f = "features" -> S("many")]

RawEntries == {RawFull, RawUrl, RawNoPath}

ManifestKeys == {"default", "test"}

KeySets == SUBSET ManifestKeys

\* a syntactically well-formed document: its top-level tables
TextDoc(top) == [ct |-> "text", syntax |-> TRUE, top |-> top]

\* a text that is no TOML at all (an HTML error page, say)
DocMalformed == [ct |-> "text", syntax |-> FALSE, top |-> <<>>]

\* well-formed, but without the ticker_vector_config section
DocNoSection == TextDoc([s \in {"package"} |-> T(<<>>)])

\* well-formed, the section is a scalar instead of a table
DocSectionNotTable == TextDoc([s \in {"ticker_vector_config"} |-> I(1)])

ManifestDoc(m) == TextDoc([s \in {"ticker_vector_config"} |-> T(m)])

ManifestDocs ==
    {ManifestDoc(m) : m \in UNION {[ks -> RawEntries] : ks \in KeySets}}

\* one entry is valid, the other has a wrongly typed field
DocBadFeatures ==
    ManifestDoc([k \in {"default", "test"} |->
                    IF k = "default" THEN RawFull ELSE RawBadFeatures])

Docs ==
    ManifestDocs
    \cup {DocMalformed, DocNoSection, DocSectionNotTable, DocBadFeatures}

\* an opaque binary payload, named by where it is hosted
Blob(url) == [ct |-> "binary", at |-> url]

----------------------------------------------------------------------------
(* The remote side *)

MirrorUrl == "https://mirror.example.org/configs.toml"

\* what a mirror hosts: a valid manifest with one entry
MirrorDoc == ManifestDoc([k \in {"default"} |-> RawFull])

\* an error body that happens to be a well-formed manifest (a fallback page)
ErrFallbackDoc == ManifestDoc([k \in {"default"} |-> RawUrl])

ErrStatuses == {404, 503}

\* how the remote side answers one request: the connection fails, the body
\* cannot be read, the resource is served, or the server refuses with an
\* error status and a body of its own
Outcomes ==
    {[kind |-> "connect_error"],
     [kind |-> "body_error"],
     [kind |-> "served", status |-> 200],
     [kind |-> "refused", status |-> 404, body |-> DocMalformed],
     [kind |-> "refused", status |-> 503, body |-> ErrFallbackDoc]}

Hosted(url) ==
    IF url = BASE_URL \o MANIFEST_FILE THEN remote
    ELSE IF url = MirrorUrl THEN MirrorDoc
    ELSE Blob(url)

Respond(url, o) ==
    CASE o.kind = "served" ->
            [kind |-> "http", status |-> o.status, body |-> Hosted(url)]
      [] o.kind = "refused" ->
            [kind |-> "http", status |-> o.status, body |-> o.body]
      [] OTHER -> [kind |-> o.kind]

\* Response::text(): the body decoded as text; binary content decodes
\* (lossily) to a text that is no TOML
text(body) == IF body.ct = "text" THEN body ELSE DocMalformed

\* Response::bytes() then to_vec(): the raw body
to_vec(body) == [bytes |-> body]

\* reqwest::blocking::get(url)?.text()? : Err only when the connection or the
\* body read fails; the status of the response is not looked at
get_text(url, o) ==
    LET r == Respond(url, o)
    IN  [io |-> <<[url |-> url, as |-> "text", resp |-> r]>>,
         result |-> IF r.kind = "http" THEN Ok(text(r.body))
                    ELSE Err(TransportError)]

\* reqwest::blocking::get(url)?.bytes()? : as get_text, for raw bytes
get_bytes(url, o) ==
    LET r == Respond(url, o)
    IN  [io |-> <<[url |-> url, as |-> "bytes", resp |-> r]>>,
         result |-> IF r.kind = "http" THEN Ok(to_vec(r.body))
                    ELSE Err(TransportError)]

----------------------------------------------------------------------------
(* Deserialization: #[derive(Deserialize)] of TickerVectorConfig and Config *)

IsStr(x) == x.t = "str"

\* u32: an integer that is not negative (the upper limit, 2^32 - 1, is beyond
\* the integers of the model)
IsU32(x) == x.t = "int" /\ x.n >= 0

IsStrArr(x) == x.t = "arr" /\ \A i \in DOMAIN x.a : IsStr(x.a[i])

StrArr(x) == [i \in DOMAIN x.a |-> x.a[i].s]

\* a required String field / the Option fields of the struct
EntryOk(e) ==
    /\ "path" \in DOMAIN e /\ IsStr(e["path"])
    /\ \A f \in {"description", "proto_noteboook", "last_training_time"} :
          f \in DOMAIN e => IsStr(e[f])
    /\ \A f \in {"features", "vector_dimensions", "training_sequence_length"} :
          f \in DOMAIN e => IsU32(e[f])
    /\ "training_data_sources" \in DOMAIN e => IsStrArr(e["training_data_sources"])

opt_str(e, f) == IF f \in DOMAIN e THEN Some(e[f].s) ELSE None

opt_u32(e, f) == IF f \in DOMAIN e THEN Some(e[f].n) ELSE None

\* one TickerVectorConfig; fields the struct does not name are ignored
TickerVectorConfig(e) ==
    [path |-> e["path"].s,
     description |-> opt_str(e, "description"),
     proto_noteboook |-> opt_str(e, "proto_noteboook"),
     last_training_time |-> opt_str(e, "last_training_time"),
     features |-> opt_u32(e, "features"),
     vector_dimensions |-> opt_u32(e, "vector_dimensions"),
     training_sequence_length |-> opt_u32(e, "training_sequence_length"),
     training_data_sources |->
        IF "training_data_sources" \in DOMAIN e
        THEN Some(StrArr(e["training_data_sources"])) ELSE None]

\* a deserializer that drops the entries it cannot read
toml_from_str_lenient(doc) ==
    IF ~doc.syntax THEN Err(ParseError)
    ELSE IF "ticker_vector_config" \notin DOMAIN doc.top THEN Err(ParseError)
    ELSE IF doc.top["ticker_vector_config"].t # "table" THEN Err(ParseError)
    ELSE LET m == doc.top["ticker_vector_config"].tbl
             good == {k \in DOMAIN m : EntryOk(m[k])}
         IN  Ok([ticker_vector_config |->
                    [k \in good |-> TickerVectorConfig(m[k])]])

\* toml::from_str::<Config>(&response)
toml_from_str(doc) ==
    IF ~doc.syntax THEN Err(ParseError)
    ELSE IF "ticker_vector_config" \notin DOMAIN doc.top THEN Err(ParseError)
    ELSE IF doc.top["ticker_vector_config"].t # "table" THEN Err(ParseError)
    ELSE LET m == doc.top["ticker_vector_config"].tbl
         IN  IF \E k \in DOMAIN m : ~EntryOk(m[k]) THEN Err(ParseError)
             ELSE Ok([ticker_vector_config |->
                        [k \in DOMAIN m |-> TickerVectorConfig(m[k])]])

----------------------------------------------------------------------------
(* The functions of lib.rs.  A function that fetches takes the outcomes of  *)
(* the requests it may issue, in order, and returns [result, io]: io is the *)
(* sequence of the requests it issued, each with the response it got.       *)

starts_with(s, prefix) ==
    Len(s) >= Len(prefix) /\ SubSeq(s, 1, Len(prefix)) = prefix

\* collapses the slash between base and filename
get_resource_url_normalised(filename) ==
    IF starts_with(filename, "/") THEN BASE_URL \o SubSeq(filename, 2, Len(filename))
    ELSE BASE_URL \o filename

get_resource_url(filename) == BASE_URL \o filename

get_symbol_map_url == get_resource_url(SYMBOL_MAP_FILE)

\* recognises https:// only
get_resource_https_only(path, outs) ==
    LET url == IF starts_with(path, "https://") THEN path
               ELSE get_resource_url(path)
    IN  get_bytes(url, outs[1])

get_resource(path, outs) ==
    LET url == IF starts_with(path, "http://") \/ starts_with(path, "https://")
               THEN path
               ELSE get_resource_url(path)
    IN  get_bytes(url, outs[1])

\* resolves the symbol map URL against the base a second time
get_symbol_map_twice(outs) ==
    get_bytes(get_resource_url(get_symbol_map_url), outs[1])

get_symbol_map(outs) == get_resource(get_symbol_map_url, outs)

load_all_configs_from_url(url, outs) ==
    LET response == get_text(url, outs[1])
    IN  IF ~response.result.ok THEN response
        ELSE LET config == toml_from_str(response.result.val)
             IN  IF ~config.ok THEN [response EXCEPT !.result = config]
                 ELSE [response EXCEPT
                        !.result = Ok(config.val.ticker_vector_config)]

\* answers from the first result obtained for the current manifest
get_all_etf_matcher_configs_cached(outs) ==
    IF servedAll # <<>> THEN [result |-> servedAll[1], io |-> <<>>]
    ELSE load_all_configs_from_url(BASE_URL \o MANIFEST_FILE, outs)

get_all_etf_matcher_configs(outs) ==
    load_all_configs_from_url(BASE_URL \o MANIFEST_FILE, outs)

LowerChar(c) == IF c = "D" THEN "d" ELSE IF c = "T" THEN "t" ELSE c

RECURSIVE to_lowercase(_)
to_lowercase(s) ==
    IF Len(s) = 0 THEN "" ELSE LowerChar(Head(s)) \o to_lowercase(Tail(s))

\* a lookup that folds the case of the keys
get_config_by_key_folded(configs, key) ==
    LET hits == {k \in DOMAIN configs : to_lowercase(k) = to_lowercase(key)}
    IN  IF hits = {} THEN None ELSE Some(configs[CHOOSE k \in hits : TRUE])

\* BTreeMap::get
get_config_by_key(configs, key) ==
    IF key \in DOMAIN configs THEN Some(configs[key]) ELSE None

\* the error does not name the key
get_etf_matcher_config_by_key_anonymous(key, outs) ==
    LET all_configs == get_all_etf_matcher_configs(outs)
    IN  IF ~all_configs.result.ok THEN all_configs
        ELSE LET selected_config == get_config_by_key(all_configs.result.val, key)
             IN  IF ~selected_config.some
                 THEN [all_configs EXCEPT !.result = Err(NotFoundError(""))]
                 ELSE [all_configs EXCEPT !.result = Ok(selected_config.v)]

get_etf_matcher_config_by_key(key, outs) ==
    LET all_configs == get_all_etf_matcher_configs(outs)
    IN  IF ~all_configs.result.ok THEN all_configs
        ELSE LET selected_config == get_config_by_key(all_configs.result.val, key)
             IN  IF ~selected_config.some
                 THEN [all_configs EXCEPT !.result = Err(NotFoundError(key))]
                 ELSE [all_configs EXCEPT !.result = Ok(selected_config.v)]

\* fetches the manifest again when the first attempt fails
get_ticker_vectors_collection_by_key_retry(key, outs) ==
    LET first == get_etf_matcher_config_by_key(key, outs)
        again == get_etf_matcher_config_by_key(key, Tail(outs))
        config == IF first.result.ok THEN first
                  ELSE [again EXCEPT !.io = first.io \o again.io]
    IN  IF ~config.result.ok THEN config
        ELSE LET data == get_resource(config.result.val.path, Tail(outs))
             IN  [result |-> data.result, io |-> config.io \o data.io]

\* always resolves the path against the base URL, and reclassifies failures
get_ticker_vectors_collection_by_key_rewrap(key, outs) ==
    LET config == get_etf_matcher_config_by_key(key, outs)
    IN  IF ~config.result.ok
        THEN [config EXCEPT !.result = Err(TransportError)]
        ELSE LET data == get_bytes(get_resource_url(config.result.val.path),
                                   outs[2])
             IN  [result |-> data.result, io |-> config.io \o data.io]

get_ticker_vectors_collection_by_key(key, outs) ==
    LET config == get_etf_matcher_config_by_key(key, outs)
    IN  IF ~config.result.ok THEN config
        ELSE LET data == get_resource(config.result.val.path, Tail(outs))
             IN  [result |-> data.result, io |-> config.io \o data.io]

----------------------------------------------------------------------------
(* Inputs of the calls *)

LookupKeys == {"default", "Default", "test", "nonexistent_key"}

Paths ==
    {"x.bin", "", "/x.bin", "a b%20.bin", "example.com/x", "ftp://h/x",
     "http://h/x", "https://example.com/x.bin", "HTTP://h/x", "Https://h/x"}

\* the maps a caller can hold: what the manifests of Docs deserialize to
ConfigMaps ==
    {toml_from_str(d).val.ticker_vector_config :
        d \in {x \in ManifestDocs : toml_from_str(x).ok}}

Urls == {BASE_URL \o MANIFEST_FILE, MirrorUrl}

----------------------------------------------------------------------------
(* The state machine: the caller calls one public function at a time; the  *)
(* owner of the site may replace the manifest between calls.               *)

\* how many served calls of get_all_etf_matcher_configs the history keeps
MaxCalls == 2

Call(op, arg, outs, r) ==
    [op |-> op, arg |-> arg, outs |-> outs, result |-> r.result, io |-> r.io]

\* the call was answered with a 2xx response: it was served what is hosted
Served(io) ==
    /\ Len(io) >= 1
    /\ io[1].resp.kind = "http"
    /\ io[1].resp.status \notin ErrStatuses

NoCall ==
    [op |-> "none", arg |-> <<>>, outs |-> <<>>, result |-> None, io |-> <<>>]

Init ==
    /\ remote \in Docs
    /\ last = NoCall
    /\ servedAll = <<>>

\* the site replaces the manifest; what was observed of the old one is history
ChangeManifest ==
    /\ \E d \in Docs \ {remote} : remote' = d
    /\ servedAll' = <<>>
    /\ last' = NoCall

CallGetAll ==
    /\ Len(servedAll) < MaxCalls
    /\ \E o \in Outcomes :
        LET r == get_all_etf_matcher_configs(<<o>>)
        IN  /\ last' = Call("get_all_etf_matcher_configs", <<>>, <<o>>, r)
            /\ servedAll' = IF Served(r.io) THEN Append(servedAll, r.result)
                            ELSE servedAll
            /\ UNCHANGED remote

CallLoadAll ==
    \E url \in Urls, o \in Outcomes :
        /\ last' = Call("load_all_configs_from_url", url, <<o>>,
                        load_all_configs_from_url(url, <<o>>))
        /\ UNCHANGED <<remote, servedAll>>

CallGetConfigByKeyRemote ==
    \E key \in LookupKeys, o \in Outcomes :
        /\ last' = Call("get_etf_matcher_config_by_key", key, <<o>>,
                        get_etf_matcher_config_by_key(key, <<o>>))
        /\ UNCHANGED <<remote, servedAll>>

CallGetCollection ==
    \E key \in LookupKeys, o1 \in Outcomes, o2 \in Outcomes :
        /\ last' = Call("get_ticker_vectors_collection_by_key", key, <<o1, o2>>,
                        get_ticker_vectors_collection_by_key(key, <<o1, o2>>))
        /\ UNCHANGED <<remote, servedAll>>

CallGetResource ==
    \E path \in Paths, o \in Outcomes :
        /\ last' = Call("get_resource", path, <<o>>, get_resource(path, <<o>>))
        /\ UNCHANGED <<remote, servedAll>>

CallGetSymbolMap ==
    \E o \in Outcomes :
        /\ last' = Call("get_symbol_map", <<>>, <<o>>, get_symbol_map(<<o>>))
        /\ UNCHANGED <<remote, servedAll>>

CallGetResourceUrl ==
    \E filename \in Paths :
        /\ last' = Call("get_resource_url", filename, <<>>,
                        [result |-> get_resource_url(filename), io |-> <<>>])
        /\ UNCHANGED <<remote, servedAll>>

CallGetSymbolMapUrl ==
    /\ last' = Call("get_symbol_map_url", <<>>, <<>>,
                    [result |-> get_symbol_map_url, io |-> <<>>])
    /\ UNCHANGED <<remote, servedAll>>

CallGetConfigByKey ==
    \E configs \in ConfigMaps, key \in LookupKeys :
        /\ last' = Call("get_config_by_key", [configs |-> configs, key |-> key],
                        <<>>,
                        [result |-> get_config_by_key(configs, key), io |-> <<>>])
        /\ UNCHANGED <<remote, servedAll>>

Next ==
    \/ ChangeManifest
    \/ CallGetAll
    \/ CallLoadAll
    \/ CallGetConfigByKeyRemote
    \/ CallGetCollection
    \/ CallGetResource
    \/ CallGetSymbolMap
    \/ CallGetResourceUrl
    \/ CallGetSymbolMapUrl
    \/ CallGetConfigByKey

Spec == Init /\ [][Next]_vars

----------------------------------------------------------------------------
(* Properties.  Each is a predicate on the record of the last call.        *)

ManifestUrlLiteral == "https://etfmatcher.com/data/ticker_vector_configs.toml"

\* the first request of the last call got a response with a body
Fetched == Len(last.io) >= 1 /\ last.io[1].resp.kind = "http"

\* p starts with one of the two recognised prefixes, letter for letter
RecognisedPrefix(p) ==
    \/ Len(p) >= 7 /\ SubSeq(p, 1, 7) = "http://"
    \/ Len(p) >= 8 /\ SubSeq(p, 1, 8) = "https://"

\* the URL the dual-mode rule gives for p
Target(p) ==
    IF RecognisedPrefix(p) THEN p ELSE "https://etfmatcher.com/data/" \o p

\* C1: get_resource requests p itself when p starts with "http://" or
\* "https://" (case-sensitive), and BASE_URL followed by p in every other
\* case; other schemes, upper-case schemes and scheme-less hosts are
\* concatenated, and no recognised input ever is.
C1_FetchTarget ==
    last.op = "get_resource" =>
        /\ Len(last.io) = 1
        /\ last.io[1].url = Target(last.arg)
        /\ RecognisedPrefix(last.arg) => last.io[1].url = last.arg
        /\ last.arg = "ftp://h/x" =>
              last.io[1].url = "https://etfmatcher.com/data/ftp://h/x"
        /\ last.arg = "HTTP://h/x" =>
              last.io[1].url = "https://etfmatcher.com/data/HTTP://h/x"
        /\ last.arg = "Https://h/x" =>
              last.io[1].url = "https://etfmatcher.com/data/Https://h/x"
        /\ last.arg = "example.com/x" =>
              last.io[1].url = "https://etfmatcher.com/data/example.com/x"
        /\ last.arg = "http://h/x" => last.io[1].url = "http://h/x"

C1_Witness ==
    /\ last.op = "get_resource"
    /\ last.arg = "HTTP://h/x"
    /\ last.io[1].url = "https://etfmatcher.com/data/HTTP://h/x"

\* the manifest of the last call was fetched and parsed, and lacks the key
ManifestLacksKey ==
    /\ Fetched
    /\ LET parsed == toml_from_str(text(last.io[1].resp.body))
       IN  parsed.ok /\ last.arg \notin DOMAIN parsed.val.ticker_vector_config

\* C2: when the manifest is fetched and parsed and does not contain key k,
\* get_etf_matcher_config_by_key(k) and
\* get_ticker_vectors_collection_by_key(k) end in the not-found error that
\* names k, and the latter issues no resource fetch.
C2_NotFoundCarriesKey ==
    (/\ last.op \in {"get_etf_matcher_config_by_key",
                     "get_ticker_vectors_collection_by_key"}
     /\ ManifestLacksKey)
    => /\ ~last.result.ok
       /\ last.result.err.kind = "NotFoundError"
       /\ last.result.err.msg = "Config for key '" \o last.arg \o "' not found"
       /\ Len(last.io) = 1
       /\ last.io[1].as = "text"

C2_Witness ==
    /\ last.op = "get_ticker_vectors_collection_by_key"
    /\ last.arg = "nonexistent_key"
    /\ ManifestLacksKey
    /\ last.io[1].resp.status = 200
    /\ last.result.err.msg = "Config for key 'nonexistent_key' not found"

\* the type the schema gives each field it knows
FieldType(f) ==
    CASE f \in {"path", "description", "proto_noteboook", "last_training_time"}
            -> "str"
      [] f \in {"features", "vector_dimensions", "training_sequence_length"}
            -> "int"
      [] f = "training_data_sources" -> "arr"
      [] OTHER -> "any"

EntryDefective(e) ==
    \/ "path" \notin DOMAIN e
    \/ \E f \in DOMAIN e : FieldType(f) # "any" /\ e[f].t # FieldType(f)

DocDefective(doc) ==
    \/ ~doc.syntax
    \/ "ticker_vector_config" \notin DOMAIN doc.top
    \/ doc.top["ticker_vector_config"].t # "table"
    \/ \E k \in DOMAIN doc.top["ticker_vector_config"].tbl :
          EntryDefective(doc.top["ticker_vector_config"].tbl[k])

\* C3: load_all_configs_from_url is all-or-nothing: a fetched document with
\* one defective entry (no path, a wrongly typed field), without the
\* ticker_vector_config section or with malformed syntax fails with the
\* parse error and no map; a map is returned only when every entry parses,
\* and then it has exactly the keys of the document.
C3_AllOrNothing ==
    (last.op = "load_all_configs_from_url" /\ Fetched) =>
        LET doc == text(last.io[1].resp.body)
        IN  /\ DocDefective(doc) => last.result = Err(ParseError)
            /\ last.result.ok =>
                  /\ ~DocDefective(doc)
                  /\ DOMAIN last.result.val =
                        DOMAIN doc.top["ticker_vector_config"].tbl
                  /\ \A k \in DOMAIN last.result.val :
                        last.result.val[k].path =
                            doc.top["ticker_vector_config"].tbl[k]["path"].s

C3_Witness ==
    /\ last.op = "load_all_configs_from_url"
    /\ Fetched
    /\ last.io[1].resp.status = 200
    /\ LET doc == text(last.io[1].resp.body)
       IN  /\ doc.syntax
           /\ "ticker_vector_config" \in DOMAIN doc.top
           /\ doc.top["ticker_vector_config"].t = "table"
           /\ LET m == doc.top["ticker_vector_config"].tbl
              IN  /\ DOMAIN m = {"default", "test"}
                  /\ ~EntryDefective(m["default"])
                  /\ "path" \notin DOMAIN m["test"]
    /\ last.result = Err(ParseError)

\* C4: a non-2xx response is a transport failure: load_all_configs_from_url
\* and get_resource fail with the transport error whenever the server
\* answers with a non-success status.
C4_NonSuccessIsTransportError ==
    (/\ last.op \in {"load_all_configs_from_url", "get_resource"}
     /\ Fetched
     /\ last.io[1].resp.status \in ErrStatuses)
    => last.result = Err(TransportError)

\* C5: get_config_by_key is an exact-match lookup: the stored descriptor,
\* field for field, when the key is a key of the map, absent otherwise,
\* also when the key differs from a present key in letter case only; it
\* performs no fetch.
C5_ExactLookup ==
    last.op = "get_config_by_key" =>
        LET m == last.arg.configs
            k == last.arg.key
        IN  /\ k \in DOMAIN m =>
                  /\ last.result.some
                  /\ \A f \in DOMAIN m[k] : last.result.v[f] = m[k][f]
                  /\ DOMAIN last.result.v = DOMAIN m[k]
            /\ k \notin DOMAIN m => last.result = None
            /\ (k = "Default" /\ DOMAIN m = {"default"}) => last.result = None
            /\ last.io = <<>>

C5_Witness ==
    /\ last.op = "get_config_by_key"
    /\ last.arg.key = "Default"
    /\ "default" \in DOMAIN last.arg.configs
    /\ last.result = None

C7_PlainConcatenation ==
    last.op = "get_resource_url" =>
        /\ last.result = "https://etfmatcher.com/data/" \o last.arg
        /\ Len(last.result) = Len("https://etfmatcher.com/data/") + Len(last.arg)
        /\ SubSeq(last.result, 1, Len("https://etfmatcher.com/data/"))
              = "https://etfmatcher.com/data/"
        /\ SubSeq(last.result, Len("https://etfmatcher.com/data/") + 1,
                  Len(last.result)) = last.arg
        /\ last.arg = "/x.bin" =>
              last.result = "https://etfmatcher.com/data//x.bin"
        /\ last.arg = "" => last.result = "https://etfmatcher.com/data/"
        /\ last.arg = "a b%20.bin" =>
              last.result = "https://etfmatcher.com/data/a b%20.bin"
        /\ last.io = <<>>

C7_Witness ==
    /\ last.op = "get_resource_url"
    /\ last.arg = "/x.bin"
    /\ last.result = "https://etfmatcher.com/data//x.bin"

\* C8: get_ticker_vectors_collection_by_key issues first a text fetch of the
\* manifest; a second request, the binary fetch of the resolved path, only
\* after that fetch succeeded, its body parsed and the key was found; at
\* most two requests and none repeated.  Every other public function
\* issues at most one request.
C8_RequestOrder ==
    /\ last.op = "get_ticker_vectors_collection_by_key" =>
          /\ Len(last.io) \in {1, 2}
          /\ last.io[1].url = ManifestUrlLiteral
          /\ last.io[1].as = "text"
          /\ Len(last.io) = 2 =>
                /\ Fetched
                /\ LET parsed == toml_from_str(text(last.io[1].resp.body))
                   IN  /\ parsed.ok
                       /\ last.arg \in DOMAIN parsed.val.ticker_vector_config
                       /\ last.io[2].url =
                            Target(parsed.val.ticker_vector_config[last.arg].path)
                /\ last.io[2].as = "bytes"
                /\ last.io[2].url # last.io[1].url
    /\ last.op # "get_ticker_vectors_collection_by_key" => Len(last.io) <= 1

C8_Witness ==
    /\ last.op = "get_ticker_vectors_collection_by_key"
    /\ last.arg = "test"
    /\ Len(last.io) = 2
    /\ last.io[1].resp.status = 200
    /\ last.io[2].url = "https://etfmatcher.com/data/test_path.bin"
    /\ last.io[2].resp.kind = "connect_error"
    /\ last.result = Err(TransportError)

\* C9: get_ticker_vectors_collection_by_key is the composition of its two
\* steps: when get_etf_matcher_config_by_key fails it fails with that same
\* error; otherwise its result is the result of get_resource on the path of
\* the descriptor (a full http(s) URL verbatim, a bare filename under the
\* base URL).  No error is introduced, rewrapped or swallowed.
C9_Composition ==
    last.op = "get_ticker_vectors_collection_by_key" =>
        LET config == get_etf_matcher_config_by_key(last.arg, last.outs)
        IN  IF ~config.result.ok
            THEN /\ last.result = config.result
                 /\ last.io = config.io
                 /\ last.result.err.kind \in
                        {"TransportError", "ParseError", "NotFoundError"}
            ELSE LET data == get_resource(config.result.val.path,
                                          Tail(last.outs))
                 IN  /\ last.result = data.result
                     /\ last.io = config.io \o data.io
                     /\ last.io[2].url = Target(config.result.val.path)

C9_Witness ==
    /\ last.op = "get_ticker_vectors_collection_by_key"
    /\ last.arg = "default"
    /\ Len(last.io) = 2
    /\ last.io[1].resp.status = 200
    /\ last.io[2].url = "https://example.com/x.bin"
    /\ last.io[2].resp.kind = "http"
    /\ last.io[2].resp.status = 200
    /\ last.result = Ok(to_vec(Blob("https://example.com/x.bin")))

\* C10: get_symbol_map requests exactly the value of get_symbol_map_url:
\* the base URL is prefixed once, never twice.
C10_SymbolMapTarget ==
    /\ last.op = "get_symbol_map" =>
          /\ Len(last.io) = 1
          /\ last.io[1].url =
                "https://etfmatcher.com/data/ticker_symbol_map.flatbuffers.bin"
          /\ last.io[1].url = get_symbol_map_url
          /\ last.io[1].as = "bytes"
    /\ last.op = "get_symbol_map_url" =>
          last.result =
            "https://etfmatcher.com/data/ticker_symbol_map.flatbuffers.bin"

C10_Witness ==
    /\ last.op = "get_symbol_map"
    /\ last.io[1].url =
          "https://etfmatcher.com/data/ticker_symbol_map.flatbuffers.bin"
    /\ last.io[1].resp.kind = "http"
    /\ last.io[1].resp.status = 200
    /\ last.result = Ok(to_vec(Blob(
          "https://etfmatcher.com/data/ticker_symbol_map.flatbuffers.bin")))

====
